---- MODULE Spec2Model ----
(***************************************************************************)
(* The worker's HTTP API (presto-oxidized/src/server/api.rs): the service  *)
(* table built by worker_config, the request handlers, and the parts of    *)
(* AppState they call into (task manager, memory manager, output buffers). *)
(* The task manager, the memory manager and the output buffers are not in  *)
(* api.rs; they are modelled from the design document and marked so.       *)
(***************************************************************************)
EXTENDS Naturals, FiniteSets, Sequences, TLC

\* ---------------------------------------------------------------- bounds
MaxVersion == 1    \* largest version a coordinator puts in an update
Workers == 2       \* requests the server holds in flight at once
MaxPages == 2      \* pages enqueued per output buffer
MaxToken == 3      \* largest token a consumer asks for
PoolLimit == 2     \* bytes a memory pool can hold

TaskIds == {"t1", "t2"}
BufferIds == {"b1", "b2"}
PoolIds == {"general", "reserved"}

\* ----------------------------------------------------------- task states
NonTerminal == {"Planned", "Running", "Finishing"}
Terminal == {"Finished", "Failed", "Canceled", "Aborted"}

\* A registry slot no task occupies, and the outcome of a lookup that finds none.
NoTask == [state |-> "Absent", gen |-> 0]
NotFound == [state |-> "NotFound", gen |-> 0]
NoInfo == [state |-> "None", gen |-> 0]

VARIABLES
    tasks,      \* task registry: task id -> [state, gen]
    inflight,   \* requests received and not yet served
    resp,       \* the response sent last
    abortSnap,  \* per task: the answer to the first DELETE ?abort that met it non-terminal
    race,       \* per task: progress of a concurrent cancel/abort pair
    buffers,    \* output buffers: buffer id -> [created, low, high, complete]
    pools,      \* memory pools: pool id -> [reserved, free]
    memLock,    \* holder of the memory manager's mutex
    pc,         \* position of each memory-manager client
    snap,       \* what each memory handler has read so far
    atLock,     \* pool totals at the moment each client took the mutex
    arg,        \* the pool a client works on
    cap,        \* requests the server holds in flight at once in this run
    debugLog    \* whether the logger lets debug records through

vars == <<tasks, inflight, resp, abortSnap, race, buffers, pools, memLock, pc, snap, atLock, arg, cap, debugLog>>
bufVars == <<buffers>>
memVars == <<pools, memLock, pc, snap, atLock, arg>>

\* ------------------------------------------------------------ the routes
\* Every handler api.rs declares, with the method and path of its route macro.
Services ==
    { [handler |-> "post_memory",          method |-> "POST",   path |-> "/memory"],
      [handler |-> "get_memory_pool",      method |-> "GET",    path |-> "/memory/{pool_id}"],
      [handler |-> "get_info",             method |-> "GET",    path |-> "/info"],
      [handler |-> "get_state",            method |-> "GET",    path |-> "/info/state"],
      [handler |-> "put_state",            method |-> "PUT",    path |-> "/info/state"],
      [handler |-> "get_coordinator",      method |-> "PUT",    path |-> "/info/coordinator"],
      [handler |-> "get_status",           method |-> "GET",    path |-> "/status"],
      [handler |-> "status_ping",          method |-> "HEAD",   path |-> "/status"],
      [handler |-> "post_task",            method |-> "POST",   path |-> "/task/{task_id}"],
      [handler |-> "get_task_status",      method |-> "GET",    path |-> "/task/{task_id}/status"],
      [handler |-> "get_task_info",        method |-> "GET",    path |-> "/task/{task_id}"],
      [handler |-> "delete_task",          method |-> "DELETE", path |-> "/task/{task_id}"],
      [handler |-> "get_tasks",            method |-> "GET",    path |-> "/task"],
      [handler |-> "get_buffer_token",     method |-> "GET",
       path |-> "/task/async/{task_id}/results/{buffer_id}/{token}"],
      [handler |-> "get_buffer_token_ack", method |-> "GET",
       path |-> "/task/async/{task_id}/results/{buffer_id}/{token}/acknowledge"],
      [handler |-> "delete_buffer_token",  method |-> "DELETE",
       path |-> "/task/async/{task_id}/results/{buffer_id}/{token}"] }

\* The services worker_config registers, in its order.
worker_config ==
    { "post_memory", "get_memory_pool", "get_status", "get_info", "get_state",
      "put_state", "get_coordinator", "get_task_info", "get_task_status",
      "post_task", "delete_task" }

\* The handler a request reaches: the registered service whose method guard and
\* path pattern match it, or the application's default service (404 Not Found).
Dispatch(method, path) ==
    LET hit == { s \in Services : /\ s.handler \in worker_config
                                  /\ s.method = method
                                  /\ s.path = path }
    IN  IF hit = {} THEN "default_service" ELSE (CHOOSE s \in hit : TRUE).handler

\* ---------------------------------------------------------- the requests
\* A body: whether its bytes are UTF-8, whether they are the JSON of a
\* TaskUpdateRequest, and then the version it carries. JSON is UTF-8 text.
Malformed == [utf8 |-> TRUE, wellFormed |-> FALSE, version |-> 0]
NotText == [utf8 |-> FALSE, wellFormed |-> FALSE, version |-> 0]
NoBody == Malformed
Bodies ==
    {Malformed, NotText}
    \cup { [utf8 |-> TRUE, wellFormed |-> TRUE, version |-> v] : v \in 0..MaxVersion }

\* A request: method, path pattern, the {task_id} segment, whether the query
\* carries `abort`, and the body. The `summarize` parameter is forwarded unchanged
\* to the task manager, where it selects a projection of the answer; the model
\* keeps the part of the answer both projections share ([state, gen]).
Req(m, p, t, a, b) ==
    [method |-> m, path |-> p, task |-> t, abort |-> a, body |-> b]

\* The requests a coordinator sends: the task routes with their parameters, and
\* one request for each other route of the surface.
TaskRequests ==
    { Req("POST", "/task/{task_id}", t, FALSE, b) : t \in TaskIds, b \in Bodies }
    \cup { Req("GET", "/task/{task_id}", t, FALSE, NoBody) : t \in TaskIds }
    \cup { Req("GET", "/task/{task_id}/status", t, FALSE, NoBody) : t \in TaskIds }
    \cup { Req("DELETE", "/task/{task_id}", t, a, NoBody) : t \in TaskIds, a \in BOOLEAN }

\* The requests on one task that the server holds in flight together.
RaceRequests == { r \in TaskRequests : r.task = "t1" }

\* One request for each route api.rs declares a handler for.
SurfaceRequests ==
    { Req(s.method, s.path, "t1", FALSE, [utf8 |-> TRUE, wellFormed |-> TRUE, version |-> 0]) :
        s \in Services }

Requests == TaskRequests \cup SurfaceRequests

NoRequest == Req("-", "-", "none", FALSE, NoBody)

Response(r, h, st, info, msg, call) ==
    [req |-> r, handler |-> h, status |-> st, info |-> info, msg |-> msg, call |-> call]

NoResponse == Response(NoRequest, "-", 0, NoInfo, "", "none")

\* ------------------------------------------------------ the task manager
\* What an accepted update does to the task: leave its state, start it, or fail
\* it because its memory reservation was refused.
Outcomes == {"stay", "run", "oom"}

Snapshot(reg, t) == IF reg[t] = NoTask THEN NotFound ELSE reg[t]

update_task(reg, t, version, outcome) ==
    LET cur == IF reg[t] = NoTask THEN [state |-> "Planned", gen |-> 0] ELSE reg[t]
        new == IF cur.state \in Terminal \/ version < cur.gen
               THEN cur
               ELSE [state |-> CASE outcome = "oom" -> "Failed"
                                 [] outcome = "run" /\ cur.state = "Planned" -> "Running"
                                 [] OTHER -> cur.state,
                     gen |-> cur.gen + 1]
        out == [reg EXCEPT ![t] = new]
    IN  [tasks |-> out, info |-> Snapshot(out, t)]

cancel_task(reg, t) ==
    LET out == IF reg[t].state \in NonTerminal
               THEN [reg EXCEPT ![t].state = "Canceled"] ELSE reg
    IN  [tasks |-> out, info |-> Snapshot(out, t)]

abort_task(reg, t) ==
    LET out == IF reg[t].state \in NonTerminal
               THEN [reg EXCEPT ![t].state = "Aborted"] ELSE reg
    IN  [tasks |-> out, info |-> Snapshot(out, t)]

\* --------------------------------------------------------- the handlers
\* serde_json::from_slice::<TaskUpdateRequest>(&request)
from_slice(body) ==
    IF body.wellFormed THEN [is_err |-> FALSE, version |-> body.version]
                       ELSE [is_err |-> TRUE, version |-> 0]

\* String::from_utf8(request.to_vec())
from_utf8(body) == [is_err |-> ~body.utf8]

\* A handler that panics sends no response of its own.
Panicked(r, h) == Response(r, h, 0, NoInfo, "", "none")

\* post_task answering with the error builder of its first branch on every path.
post_task_error_status(reg, r, outcome, debug) ==
    LET rq == from_slice(r.body)
    IN  IF rq.is_err
        THEN IF debug /\ from_utf8(r.body).is_err
             THEN [tasks |-> reg, resp |-> Panicked(r, "post_task")]
             ELSE [tasks |-> reg,
                   resp |-> Response(r, "post_task", 500, NoInfo,
                                     "failed to deserialize json response", "none")]
        ELSE LET u == update_task(reg, r.task, rq.version, outcome)
             IN  [tasks |-> u.tasks,
                  resp |-> Response(r, "post_task", 500, u.info, "", "update_task")]

post_task(reg, r, outcome, debug) ==
    LET rq == from_slice(r.body)
    IN  IF rq.is_err
        THEN IF debug /\ from_utf8(r.body).is_err
             THEN [tasks |-> reg, resp |-> Panicked(r, "post_task")]
             ELSE [tasks |-> reg,
                   resp |-> Response(r, "post_task", 500, NoInfo,
                                     "failed to deserialize json response", "none")]
        ELSE LET u == update_task(reg, r.task, rq.version, outcome)
             IN  [tasks |-> u.tasks,
                  resp |-> Response(r, "post_task", 200, u.info, "", "update_task")]

get_task_status(reg, r) ==
    [tasks |-> reg,
     resp |-> Response(r, "get_task_status", 200, Snapshot(reg, r.task), "", "get_task_status")]

get_task_info(reg, r) ==
    [tasks |-> reg,
     resp |-> Response(r, "get_task_info", 200, Snapshot(reg, r.task), "", "get_task_info")]

\* delete_task answering 204 No Content instead of the task info.
delete_task_no_content(reg, r) ==
    IF r.abort
    THEN [tasks |-> cancel_task(reg, r.task).tasks,
          resp |-> Response(r, "delete_task", 204, NoInfo, "", "cancel_task")]
    ELSE [tasks |-> abort_task(reg, r.task).tasks,
          resp |-> Response(r, "delete_task", 204, NoInfo, "", "abort_task")]

delete_task(reg, r) ==
    IF r.abort
    THEN LET c == cancel_task(reg, r.task)
         IN  [tasks |-> c.tasks, resp |-> Response(r, "delete_task", 200, c.info, "", "cancel_task")]
    ELSE LET a == abort_task(reg, r.task)
         IN  [tasks |-> a.tasks, resp |-> Response(r, "delete_task", 200, a.info, "", "abort_task")]

\* The handlers that do not touch the task registry.
get_info(r) == Response(r, "get_info", 200, NoInfo, "", "none")

get_state(r) == Response(r, "get_state", 200, NoInfo, "", "none")

put_state(r) == Response(r, "put_state", 501, NoInfo, "", "none")

get_coordinator(r) == Response(r, "get_coordinator", 404, NoInfo, "", "none")

\* TryInto::<NodeStatus>::try_into(..)? : the conversion's error is the response.
get_status(r, converted) ==
    Response(r, "get_status", IF converted THEN 200 ELSE 500, NoInfo, "", "none")

status_ping(r) == Response(r, "status_ping", 200, NoInfo, "", "none")

get_tasks(r) == Response(r, "get_tasks", 200, NoInfo, "", "get_all_task_info")

get_buffer_token(r) == Response(r, "get_buffer_token", 501, NoInfo, "", "none")

get_buffer_token_ack(r) == Response(r, "get_buffer_token_ack", 501, NoInfo, "", "none")

delete_buffer_token(r) == Response(r, "delete_buffer_token", 501, NoInfo, "", "none")

\* The memory handlers' answer when they run alone: the manager's info, 200.
memory_info(r, h) == Response(r, h, 200, NoInfo, "", "none")

\* The application's default service: no route matched.
default_service(r) == Response(r, "default_service", 404, NoInfo, "", "none")

\* The answer of handler h to request r, for the handlers above.
Handle(h, r, converted) ==
    CASE h = "get_info" -> get_info(r)
      [] h = "get_state" -> get_state(r)
      [] h = "put_state" -> put_state(r)
      [] h = "get_coordinator" -> get_coordinator(r)
      [] h = "get_status" -> get_status(r, converted)
      [] h = "status_ping" -> status_ping(r)
      [] h = "get_tasks" -> get_tasks(r)
      [] h = "get_buffer_token" -> get_buffer_token(r)
      [] h = "get_buffer_token_ack" -> get_buffer_token_ack(r)
      [] h = "delete_buffer_token" -> delete_buffer_token(r)
      [] h \in {"post_memory", "get_memory_pool"} -> memory_info(r, h)
      [] OTHER -> default_service(r)

\* ------------------------------------------------------------ the state
\* The clients of the memory manager: the two memory handlers, and a task
\* reserving and releasing bytes.
MemoryHandlers == {"post_memory", "get_memory_pool"}
Clients == MemoryHandlers \cup {"task"}

\* A pool a handler has not read yet.
Unread == [reserved |-> PoolLimit + 1, free |-> PoolLimit + 1]

InitRest ==
    /\ buffers = [b \in BufferIds |-> [created |-> FALSE, low |-> 0, high |-> 0, complete |-> FALSE]]
    /\ pools = [p \in PoolIds |-> [reserved |-> 0, free |-> PoolLimit]]
    /\ memLock = "none"
    /\ pc = [c \in Clients |-> "idle"]
    /\ snap = [c \in MemoryHandlers |-> [p \in PoolIds |-> Unread]]
    /\ atLock = [c \in MemoryHandlers |-> pools]
    /\ arg = [c \in {"get_memory_pool", "task"} |-> "general"]

Init ==
    /\ tasks = [t \in TaskIds |-> NoTask]
    /\ inflight = {}
    /\ resp = NoResponse
    /\ abortSnap = [t \in TaskIds |-> NoInfo]
    /\ race = [t \in TaskIds |-> "none"]
    /\ cap = 1
    /\ debugLog \in BOOLEAN
    /\ InitRest

\* ------------------------------------------------- control-plane actions
\* The server accepts a request; it is served later, by any worker thread.
Receive(r) ==
    /\ r \notin inflight
    /\ Cardinality(inflight) < cap
    /\ inflight' = inflight \cup {r}
    /\ UNCHANGED <<tasks, resp, abortSnap, race, cap, debugLog, bufVars, memVars>>

Routed(r, h) == r \in inflight /\ Dispatch(r.method, r.path) = h

PostTask(r) ==
    /\ Routed(r, "post_task")
    /\ \E outcome \in Outcomes :
         LET res == post_task(tasks, r, outcome, debugLog)
         IN  /\ tasks' = res.tasks
             /\ resp' = res.resp
    /\ inflight' = inflight \ {r}
    /\ UNCHANGED <<abortSnap, race, cap, debugLog, bufVars, memVars>>

GetTaskStatus(r) ==
    /\ Routed(r, "get_task_status")
    /\ LET res == get_task_status(tasks, r)
       IN  tasks' = res.tasks /\ resp' = res.resp
    /\ inflight' = inflight \ {r}
    /\ UNCHANGED <<abortSnap, race, cap, debugLog, bufVars, memVars>>

GetTaskInfo(r) ==
    /\ Routed(r, "get_task_info")
    /\ LET res == get_task_info(tasks, r)
       IN  tasks' = res.tasks /\ resp' = res.resp
    /\ inflight' = inflight \ {r}
    /\ UNCHANGED <<abortSnap, race, cap, debugLog, bufVars, memVars>>

\* A DELETE of the other kind (cancel against abort) on the same task is in flight.
OtherDeleteInFlight(r) ==
    \E q \in inflight : /\ q.method = "DELETE" /\ q.path = r.path
                        /\ q.task = r.task /\ q.abort # r.abort

DeleteTask(r) ==
    /\ Routed(r, "delete_task")
    /\ LET res == delete_task(tasks, r)
           t == r.task
       IN  /\ tasks' = res.tasks
           /\ resp' = res.resp
           /\ abortSnap' = IF r.abort /\ tasks[t].state \in NonTerminal /\ abortSnap[t] = NoInfo
                           THEN [abortSnap EXCEPT ![t] = res.resp.info]
                           ELSE abortSnap
           /\ race' = CASE race[t] = "none" /\ tasks[t].state \in NonTerminal
                             /\ OtherDeleteInFlight(r)
                             -> [race EXCEPT ![t] = IF r.abort THEN "cancelPending"
                                                               ELSE "abortPending"]
                        [] race[t] = "cancelPending" /\ ~r.abort -> [race EXCEPT ![t] = "done"]
                        [] race[t] = "abortPending" /\ r.abort -> [race EXCEPT ![t] = "done"]
                        [] OTHER -> race
    /\ inflight' = inflight \ {r}
    /\ UNCHANGED <<cap, debugLog, bufVars, memVars>>

\* A request routed to a handler that does not touch the task registry; the
\* memory handlers first take the memory manager's mutex.
ServeFixed(r) ==
    /\ r \in inflight
    /\ Dispatch(r.method, r.path) \notin
         { "post_task", "get_task_status", "get_task_info", "delete_task", "default_service" }
    /\ memLock = "none"
    /\ \E converted \in BOOLEAN : resp' = Handle(Dispatch(r.method, r.path), r, converted)
    /\ inflight' = inflight \ {r}
    /\ UNCHANGED <<tasks, abortSnap, race, cap, debugLog, bufVars, memVars>>

\* No registered service matches: the default service answers 404 Not Found.
DefaultService(r) ==
    /\ Routed(r, "default_service")
    /\ resp' = default_service(r)
    /\ inflight' = inflight \ {r}
    /\ UNCHANGED <<tasks, abortSnap, race, cap, debugLog, bufVars, memVars>>

\* The execution engine drives a running task to completion.
Execute(t) ==
    /\ tasks[t].state \in {"Running", "Finishing"}
    /\ tasks' = [tasks EXCEPT ![t].state =
                    IF tasks[t].state = "Running" THEN "Finishing" ELSE "Finished"]
    /\ UNCHANGED <<inflight, resp, abortSnap, race, cap, debugLog, bufVars, memVars>>

\* The control plane, one request at a time, over every task.
Next ==
    \/ \E r \in TaskRequests : Receive(r)
    \/ \E r \in Requests : PostTask(r)
    \/ \E r \in Requests : GetTaskStatus(r)
    \/ \E r \in Requests : GetTaskInfo(r)
    \/ \E r \in Requests : DeleteTask(r)
    \/ \E t \in TaskIds : Execute(t)

Spec == Init /\ [][Next]_vars

\* The control plane with Workers requests on one task in flight at once.
InitRace ==
    /\ tasks = [t \in TaskIds |-> NoTask]
    /\ inflight = {}
    /\ resp = NoResponse
    /\ abortSnap = [t \in TaskIds |-> NoInfo]
    /\ race = [t \in TaskIds |-> "none"]
    /\ cap = Workers
    /\ debugLog \in BOOLEAN
    /\ InitRest

NextRace ==
    \/ \E r \in RaceRequests : Receive(r)
    \/ \E r \in Requests : PostTask(r)
    \/ \E r \in Requests : GetTaskStatus(r)
    \/ \E r \in Requests : GetTaskInfo(r)
    \/ \E r \in Requests : DeleteTask(r)
    \/ \E t \in TaskIds : Execute(t)

SpecRace == InitRace /\ [][NextRace]_vars

\* Every route of the surface, through the service table.
NextRoute ==
    \/ \E r \in SurfaceRequests : Receive(r)
    \/ \E r \in Requests : PostTask(r)
    \/ \E r \in Requests : GetTaskStatus(r)
    \/ \E r \in Requests : GetTaskInfo(r)
    \/ \E r \in Requests : DeleteTask(r)
    \/ \E r \in Requests : ServeFixed(r)
    \/ \E r \in Requests : DefaultService(r)
    \/ \E t \in TaskIds : Execute(t)

SpecRoute == Init /\ [][NextRoute]_vars

\* ----------------------------------------------------- the data plane
PullPath == "/task/async/{task_id}/results/{buffer_id}/{token}"
AckPath == "/task/async/{task_id}/results/{buffer_id}/{token}/acknowledge"

BufReq(m, p, b, tok) ==
    [method |-> m, path |-> p, task |-> "t1", abort |-> FALSE, body |-> NoBody,
     buffer |-> b, token |-> tok]

\* The execution side designates an output destination.
CreateBuffer(b) ==
    /\ ~buffers[b].created
    /\ buffers' = [buffers EXCEPT ![b].created = TRUE]
    /\ UNCHANGED <<tasks, inflight, resp, abortSnap, race, cap, debugLog, memVars>>

\* A page is appended at the high-watermark, unless the buffer is complete.
Enqueue(b) ==
    /\ buffers[b].created
    /\ ~buffers[b].complete
    /\ buffers[b].high < MaxPages
    /\ buffers' = [buffers EXCEPT ![b].high = @ + 1]
    /\ UNCHANGED <<tasks, inflight, resp, abortSnap, race, cap, debugLog, memVars>>

MarkComplete(b) ==
    /\ buffers[b].created
    /\ ~buffers[b].complete
    /\ buffers' = [buffers EXCEPT ![b].complete = TRUE]
    /\ UNCHANGED <<tasks, inflight, resp, abortSnap, race, cap, debugLog, memVars>>

\* A request on a buffer route, through the service table: the handler it
\* reaches answers; no handler of api.rs reads or changes a buffer.
ServeBufferRoute(m, p, b, tok) ==
    /\ resp' = Handle(Dispatch(m, p), BufReq(m, p, b, tok), TRUE)
    /\ UNCHANGED <<tasks, inflight, abortSnap, race, cap, debugLog, bufVars, memVars>>

GetResults(b, tok) == ServeBufferRoute("GET", PullPath, b, tok)

AcknowledgeResults(b, tok) == ServeBufferRoute("GET", AckPath, b, tok)

DeleteResults(b, tok) == ServeBufferRoute("DELETE", PullPath, b, tok)

NextBuf ==
    \/ \E b \in BufferIds : CreateBuffer(b)
    \/ \E b \in BufferIds : Enqueue(b)
    \/ \E b \in BufferIds : MarkComplete(b)
    \/ \E b \in BufferIds, tok \in 0..MaxToken : GetResults(b, tok)
    \/ \E b \in BufferIds, tok \in 0..MaxToken : AcknowledgeResults(b, tok)
    \/ \E b \in BufferIds, tok \in 0..MaxToken : DeleteResults(b, tok)

SpecBuf == Init /\ [][NextBuf]_vars

\* --------------------------------------------------- the memory manager
\* state.memory_manager.lock().await: the caller waits until the mutex is free.
MutexFree == memLock = "none"

\* post_memory proceeding without waiting for the mutex.
PostMemoryNoLock ==
    /\ pc["post_memory"] \in {"idle", "responded"}
    /\ pc' = [pc EXCEPT !["post_memory"] = "reading"]
    /\ snap' = [snap EXCEPT !["post_memory"] = [p \in PoolIds |-> Unread]]
    /\ atLock' = [atLock EXCEPT !["post_memory"] = pools]
    /\ UNCHANGED <<tasks, inflight, resp, abortSnap, race, cap, debugLog, bufVars, pools, memLock, arg>>

\* post_memory: state.memory_manager.lock().await
PostMemoryLock ==
    /\ pc["post_memory"] \in {"idle", "responded"}
    /\ MutexFree
    /\ memLock' = "post_memory"
    /\ pc' = [pc EXCEPT !["post_memory"] = "reading"]
    /\ snap' = [snap EXCEPT !["post_memory"] = [p \in PoolIds |-> Unread]]
    /\ atLock' = [atLock EXCEPT !["post_memory"] = pools]
    /\ UNCHANGED <<tasks, inflight, resp, abortSnap, race, cap, debugLog, bufVars, pools, arg>>

\* post_memory: .get_info().await reads the pools, one at a time.
PostMemoryRead(p) ==
    /\ pc["post_memory"] = "reading"
    /\ snap["post_memory"][p] = Unread
    /\ snap' = [snap EXCEPT !["post_memory"][p] = pools[p]]
    /\ UNCHANGED <<tasks, inflight, resp, abortSnap, race, cap, debugLog, bufVars, pools, memLock, pc, atLock, arg>>

\* post_memory: the response is built and the guard dropped as the handler returns.
PostMemoryUnlock ==
    /\ pc["post_memory"] = "reading"
    /\ \A p \in PoolIds : snap["post_memory"][p] # Unread
    /\ memLock' = IF memLock = "post_memory" THEN "none" ELSE memLock
    /\ pc' = [pc EXCEPT !["post_memory"] = "unlocked"]
    /\ UNCHANGED <<tasks, inflight, resp, abortSnap, race, cap, debugLog, bufVars, pools, snap, atLock, arg>>

PostMemoryRespond ==
    /\ pc["post_memory"] = "unlocked"
    /\ pc' = [pc EXCEPT !["post_memory"] = "responded"]
    /\ UNCHANGED <<tasks, inflight, resp, abortSnap, race, cap, debugLog, bufVars, pools, memLock, snap, atLock, arg>>

\* get_memory_pool: state.memory_manager.lock().await, for the pool of the path.
GetMemoryPoolLock(p) ==
    /\ pc["get_memory_pool"] \in {"idle", "responded"}
    /\ MutexFree
    /\ memLock' = "get_memory_pool"
    /\ pc' = [pc EXCEPT !["get_memory_pool"] = "reading"]
    /\ arg' = [arg EXCEPT !["get_memory_pool"] = p]
    /\ snap' = [snap EXCEPT !["get_memory_pool"] = [q \in PoolIds |-> Unread]]
    /\ atLock' = [atLock EXCEPT !["get_memory_pool"] = pools]
    /\ UNCHANGED <<tasks, inflight, resp, abortSnap, race, cap, debugLog, bufVars, pools>>

\* get_memory_pool: .get_pool_info(&MemoryPoolId(args.0)).await
GetMemoryPoolRead ==
    /\ pc["get_memory_pool"] = "reading"
    /\ snap["get_memory_pool"][arg["get_memory_pool"]] = Unread
    /\ snap' = [snap EXCEPT !["get_memory_pool"][arg["get_memory_pool"]] =
                    pools[arg["get_memory_pool"]]]
    /\ UNCHANGED <<tasks, inflight, resp, abortSnap, race, cap, debugLog, bufVars, pools, memLock, pc, atLock, arg>>

\* get_memory_pool: the guard is dropped at the end of the let statement.
GetMemoryPoolUnlock ==
    /\ pc["get_memory_pool"] = "reading"
    /\ snap["get_memory_pool"][arg["get_memory_pool"]] # Unread
    /\ memLock' = IF memLock = "get_memory_pool" THEN "none" ELSE memLock
    /\ pc' = [pc EXCEPT !["get_memory_pool"] = "unlocked"]
    /\ UNCHANGED <<tasks, inflight, resp, abortSnap, race, cap, debugLog, bufVars, pools, snap, atLock, arg>>

GetMemoryPoolRespond ==
    /\ pc["get_memory_pool"] = "unlocked"
    /\ pc' = [pc EXCEPT !["get_memory_pool"] = "responded"]
    /\ UNCHANGED <<tasks, inflight, resp, abortSnap, race, cap, debugLog, bufVars, pools, memLock, snap, atLock, arg>>

\* A task takes the mutex to reserve a byte from pool p, or to release one.
TaskLock(p, op) ==
    /\ pc["task"] = "idle"
    /\ MutexFree
    /\ op \in {"reserve", "release"}
    /\ op = "reserve" => pools[p].free > 0
    /\ op = "release" => pools[p].reserved > 0
    /\ memLock' = "task"
    /\ arg' = [arg EXCEPT !["task"] = p]
    /\ pc' = [pc EXCEPT !["task"] = op]
    /\ UNCHANGED <<tasks, inflight, resp, abortSnap, race, cap, debugLog, bufVars, pools, snap, atLock>>

\* The pool's reserved total is updated first ...
TaskCommit ==
    /\ pc["task"] \in {"reserve", "release"}
    /\ pools' = [pools EXCEPT ![arg["task"]].reserved =
                    IF pc["task"] = "reserve" THEN @ + 1 ELSE @ - 1]
    /\ pc' = [pc EXCEPT !["task"] = IF pc["task"] = "reserve" THEN "reserved" ELSE "released"]
    /\ UNCHANGED <<tasks, inflight, resp, abortSnap, race, cap, debugLog, bufVars, memLock, snap, atLock, arg>>

\* ... then its free total.
TaskSettle ==
    /\ pc["task"] \in {"reserved", "released"}
    /\ pools' = [pools EXCEPT ![arg["task"]].free =
                    IF pc["task"] = "reserved" THEN @ - 1 ELSE @ + 1]
    /\ pc' = [pc EXCEPT !["task"] = "settled"]
    /\ UNCHANGED <<tasks, inflight, resp, abortSnap, race, cap, debugLog, bufVars, memLock, snap, atLock, arg>>

TaskUnlock ==
    /\ pc["task"] = "settled"
    /\ memLock' = "none"
    /\ pc' = [pc EXCEPT !["task"] = "idle"]
    /\ UNCHANGED <<tasks, inflight, resp, abortSnap, race, cap, debugLog, bufVars, pools, snap, atLock, arg>>

NextMem ==
    \/ PostMemoryLock
    \/ \E p \in PoolIds : PostMemoryRead(p)
    \/ PostMemoryUnlock
    \/ PostMemoryRespond
    \/ \E p \in PoolIds : GetMemoryPoolLock(p)
    \/ GetMemoryPoolRead
    \/ GetMemoryPoolUnlock
    \/ GetMemoryPoolRespond
    \/ \E p \in PoolIds, op \in {"reserve", "release"} : TaskLock(p, op)
    \/ TaskCommit
    \/ TaskSettle
    \/ TaskUnlock

SpecMem == Init /\ [][NextMem]_vars

\* ------------------------------------------------- control-plane claims

\* C1: a DELETE /task/{task_id} without `abort` invokes the task's cancel
\* operation and never abort; one with `abort` invokes abort and never cancel.
C1_DeleteCancelsUnlessAbort ==
    resp.handler = "delete_task" =>
        resp.call = IF resp.req.abort THEN "abort_task" ELSE "cancel_task"

\* C2: after DELETE ?abort has met a task in a non-terminal state, a status read
\* reports Aborted, and a further DELETE ?abort changes nothing and returns the
\* Aborted snapshot the first one returned.
C2_AbortStatusAbort ==
    [][\A r \in TaskRequests :
         /\ (GetTaskStatus(r) /\ abortSnap[r.task] # NoInfo)
                => resp'.info.state = "Aborted"
         /\ (DeleteTask(r) /\ r.abort /\ abortSnap[r.task] # NoInfo)
                => /\ tasks' = tasks
                   /\ resp'.info.state = "Aborted"
                   /\ resp'.info = abortSnap[r.task]]_vars

\* C3: every (method, path) of the required surface is dispatched to its own
\* handler by the service table worker_config builds.
C3_SurfaceDispatched ==
    \A s \in Services :
        (resp.req.method = s.method /\ resp.req.path = s.path) => resp.handler = s.handler

\* C4: a POST /task/{task_id} whose body does not deserialize is answered with a
\* server error carrying a diagnostic, does not invoke the task manager's update,
\* and leaves the registry and every task's state and generation as they were.
C4_MalformedBodyRejected ==
    [][\A r \in TaskRequests :
         (PostTask(r) /\ ~r.body.wellFormed)
            => /\ resp'.status = 500
               /\ resp'.msg # ""
               /\ resp'.call = "none"
               /\ tasks' = tasks]_vars

\* C5: GET /task/{task_id}, GET /task/{task_id}/status and DELETE /task/{task_id}
\* on an id the registry does not hold answer not-found, and create no task.
C5_UnknownTaskNotFound ==
    [][\A r \in TaskRequests :
         ((GetTaskInfo(r) \/ GetTaskStatus(r) \/ DeleteTask(r)) /\ tasks[r.task] = NoTask)
            => /\ resp'.status = 404
               /\ tasks'[r.task] = NoTask]_vars

C6_PullAnswersByWatermark ==
    [][\A b \in BufferIds, tok \in 0..MaxToken :
         (GetResults(b, tok) /\ buffers[b].created)
            => /\ tok < buffers[b].low => resp'.msg = "TokenOutOfRange"
               /\ (buffers[b].complete /\ tok >= buffers[b].high)
                    => (resp'.status = 200 /\ resp'.msg = "NoMorePages")]_vars

\* ------------------------------------------------------- memory claims

\* The pools a handler's answer reports.
Asked(c) == IF c = "post_memory" THEN PoolIds ELSE {arg[c]}

\* C10: the snapshot a memory handler returns equals the pool totals of one
\* moment (the moment it took the mutex) and shows no half-applied reservation;
\* the handler has released the mutex when it responds; and no step of a memory
\* handler changes the pool totals.
C10_SnapshotUnderLock ==
    /\ [](\A c \in MemoryHandlers :
            pc[c] = "responded"
               => /\ memLock # c
                  /\ \A p \in Asked(c) :
                       /\ snap[c][p] = atLock[c][p]
                       /\ snap[c][p].reserved + snap[c][p].free = PoolLimit)
    /\ [][\A c \in MemoryHandlers :
            (pc'[c] # pc[c] \/ snap'[c] # snap[c]) => pools' = pools]_vars

\* Both handlers have answered while reservations were made in between.
C10_Witness ==
    /\ pc["post_memory"] = "responded"
    /\ pc["get_memory_pool"] = "responded"
    /\ snap["post_memory"]["general"] # snap["get_memory_pool"]["general"]
    /\ arg["get_memory_pool"] = "general"
    /\ pc["task"] \in {"reserved", "released"}

====
